---- MODULE Spec2Model ----
(***************************************************************************)
(* GoogleSheetConnector (petri_dish/connectors.py): open-or-create of a    *)
(* remote spreadsheet, write of a table into a worksheet, read of a        *)
(* worksheet into a table.  The remote service (Drive files, permissions,  *)
(* worksheet cells) is part of the state; every public method is one       *)
(* action; the remote calls an operation issues are logged in `calls`.     *)
(***************************************************************************)
EXTENDS Integers, Sequences, FiniteSets, TLC

VARIABLES
    share_with,   \* self.share_with, set once by __init__
    drive,        \* spreadsheet files the service account can list, in listing order
    perms,        \* permissions granted on spreadsheet files
    sheets,       \* cells of the worksheets of the spreadsheet handed to write/read
    last,         \* the inputs of the last operation
    calls,        \* the remote calls the last operation issued, in order
    casts,        \* the astype casts the last read attempted, in order
    result,       \* how the last operation ended
    nwrites,      \* number of write calls made so far
    nreads        \* number of read calls made so far

vars == <<share_with, drive, perms, sheets, last, calls, casts, result, nwrites, nreads>>

-----------------------------------------------------------------------------
(* Bounds of the model *)

NumSheets == 2
MaxRows == 2
MaxCols == 2
MaxMapLen == 2
MaxFiles == 2
MaxWrites == 1
MaxReads == 1

\* Input domains.  Tables hold text: "" is the empty string, "x" text that is
\* no number, "3" text that parses as a number.  In a table that read returns,
\* "int:3" stands for the integer 3 and "3" for the string '3'.
Titles == {"t1", "t2", "t3"}
Names == {"", "a", "b"}
Values == {"", "x", "3"}
KeyNames == {"a", "b"}
DTypes == {"int", "str"}

\* Every worksheet has the cells a table of the largest shape needs.

GridRows == MaxRows + 1
GridCols == MaxCols
Grid == (1..GridRows) \X (1..GridCols)

-----------------------------------------------------------------------------
(* Values shared by the operations *)

\* Python's None, for share_with.
NoneValue == "<None>"

ShareWithValues == {NoneValue, "", "user@example.com"}

\* A variant that only tests for None.
Truthy_IsNotNone(v) == v # NoneValue

\* Python truthiness of a str-or-None value (`not self.share_with`).
Truthy(v) == v # NoneValue /\ v # ""

\* The attributes __init__ assigns on the connector.
ConnectorAttrs == {"client", "share_with"}

\* The service account's e-mail, as read through the credentials object.
ServiceAccountEmail == "svc@project.iam.gserviceaccount.com"

EmptyTable == [columns |-> <<>>, rows |-> <<>>]

NoDataTypes == [given |-> FALSE, items |-> <<>>]

NoHandle == [id |-> 0, title |-> ""]

Call(op, args) == [op |-> op, args |-> args]

Returned(handle, table) ==
    [status |-> "returned", error |-> "", names |-> <<>>,
     handle |-> handle, table |-> table]

Raised(error, names) ==
    [status |-> "raised", error |-> error, names |-> names,
     handle |-> NoHandle, table |-> EmptyTable]

NoOp ==
    [op |-> "none", title |-> "", create |-> FALSE, n |-> 0,
     table |-> EmptyTable, data_types |-> NoDataTypes, after_write |-> FALSE]

-----------------------------------------------------------------------------
(* open *)

\* Positions in the file listing whose title matches.
Matches(files, title) == {i \in 1..Len(files) : files[i].title = title}

Min(S) == CHOOSE x \in S : \A y \in S : x <= y
Max(S) == CHOOSE x \in S : \A y \in S : x >= y

\* gspread Client.open: the first listed file with that title, or
\* SpreadsheetNotFound.
ClientOpenFound(files, title) == Matches(files, title) # {}
ClientOpen(files, title) == files[Min(Matches(files, title))]

\* gspread Client.create: a new file with a server-assigned id.
ClientCreate(files, title) == [id |-> Len(files) + 1, title |-> title]

\* The error of the `not create` branch.  The message is formatted before the
\* exception is built, and formatting reads self.creds.
NotFoundError(attrs, title) ==
    IF "creds" \in attrs
    THEN Raised("NotFound", <<title, ServiceAccountEmail>>)
    ELSE Raised("AttributeError", <<"creds">>)

\* A variant that asks for the owner role.
ShareCall_Owner(sheet, grantee) == Call("share", <<sheet.id, grantee, "user", "owner">>)

\* sheet.share(self.share_with, 'user', 'writer')
ShareCall(sheet, grantee) == Call("share", <<sheet.id, grantee, "user", "writer">>)

Open(sheet_title, create, share_effective) ==
    /\ last' = [NoOp EXCEPT !.op = "open", !.title = sheet_title, !.create = create]
    /\ casts' = <<>>
    /\ UNCHANGED <<share_with, sheets, nwrites, nreads>>
    /\ IF ClientOpenFound(drive, sheet_title)
       THEN /\ calls' = <<Call("open", <<sheet_title>>)>>
            /\ result' = Returned(ClientOpen(drive, sheet_title), EmptyTable)
            /\ UNCHANGED <<drive, perms>>
       ELSE IF ~create
       THEN /\ calls' = <<Call("open", <<sheet_title>>)>>
            /\ result' = NotFoundError(ConnectorAttrs, sheet_title)
            /\ UNCHANGED <<drive, perms>>
       ELSE IF ~Truthy(share_with)
       THEN /\ calls' = <<Call("open", <<sheet_title>>)>>
            /\ result' = Raised("Configuration", <<"share_with">>)
            /\ UNCHANGED <<drive, perms>>
       ELSE LET sheet == ClientCreate(drive, sheet_title) IN
            /\ Len(drive) < MaxFiles
            /\ calls' = <<Call("open", <<sheet_title>>),
                          Call("create", <<sheet_title>>),
                          ShareCall(sheet, share_with)>>
            /\ drive' = Append(drive, sheet)
            \* the share call may silently grant nothing
            /\ perms' = IF share_effective
                        THEN perms \cup {<<sheet.id, share_with, "writer">>}
                        ELSE perms
            /\ result' = Returned(sheet, EmptyTable)

OpenStep ==
    \E t \in Titles, c \in BOOLEAN, e \in BOOLEAN : Open(t, c, e)

-----------------------------------------------------------------------------
(* Tables (pandas.DataFrame with string values and the default index) *)

Injective(s) == \A i, j \in DOMAIN s : s[i] = s[j] => i = j

ColumnSeqs ==
    UNION {{s \in [1..k -> Names] : Injective(s)} : k \in 1..MaxCols}

RowsOf(col_count) ==
    UNION {[1..r -> [1..col_count -> Values]] : r \in 0..MaxRows}

\* The table with these column names and these rows.
Table(cs, rs) == [columns |-> cs, rows |-> rs]

\* dataframe.shape
Shape(dataframe) == <<Len(dataframe.rows), Len(dataframe.columns)>>

\* Position of the column labelled `name` (labels of a written table are distinct).
ColumnPos(dataframe, name) ==
    CHOOSE j \in 1..Len(dataframe.columns) : dataframe.columns[j] = name

\* dataframe[name][label]: column by label, then row by index label 0..R-1.
DataframeAt(dataframe, name, label) ==
    dataframe.rows[label + 1][ColumnPos(dataframe, name)]

-----------------------------------------------------------------------------
(* gspread worksheet operations, on the cells of one worksheet.  An empty   *)
(* cell holds "".                                                          *)

\* Spreadsheet.get_worksheet(index): None when there is no such worksheet.
HasWorksheet(index) == index \in 0..(NumSheets - 1)

\* Worksheet.range(first_row, first_col, last_row, last_col): the cells of the
\* rectangle with their current values, row by row.
WorksheetRange(cells, rng) ==
    LET nr == rng[3] - rng[1] + 1
        nc == rng[4] - rng[2] + 1
    IN  [k \in 1..(nr * nc) |->
            LET i == (k - 1) \div nc
                j == (k - 1) % nc
            IN  [row |-> rng[1] + i, col |-> rng[2] + j,
                 value |-> cells[<<rng[1] + i, rng[2] + j>>]]]

\* A variant that clears the worksheet before setting the listed cells.
UpdateCells_ClearFirst(cells, cell_list) ==
    [p \in Grid |->
        IF \E k \in DOMAIN cell_list : cell_list[k].row = p[1] /\ cell_list[k].col = p[2]
        THEN LET k == CHOOSE k \in DOMAIN cell_list :
                          cell_list[k].row = p[1] /\ cell_list[k].col = p[2]
             IN  cell_list[k].value
        ELSE ""]

\* Worksheet.update_cells(cell_list): one request that sets the listed cells.
UpdateCells(cells, cell_list) ==
    [p \in Grid |->
        IF \E k \in DOMAIN cell_list : cell_list[k].row = p[1] /\ cell_list[k].col = p[2]
        THEN LET k == CHOOSE k \in DOMAIN cell_list :
                          cell_list[k].row = p[1] /\ cell_list[k].col = p[2]
             IN  cell_list[k].value
        ELSE cells[p]]

\* Extent of the data: last row and last column holding a non-empty cell.
LastRow(cells) == Max({0} \cup {p[1] : p \in {q \in Grid : cells[q] # ""}})
LastCol(cells) == Max({0} \cup {p[2] : p \in {q \in Grid : cells[q] # ""}})

\* Worksheet.get_all_values(): the rows up to the last non-empty one, padded
\* to the width of the widest row (fill_gaps).
GetAllValues(cells) ==
    [r \in 1..LastRow(cells) |-> [c \in 1..LastCol(cells) |-> cells[<<r, c>>]]]

\* Worksheet.row_values(row): the row without its trailing empty cells.
RowValues(cells, row) ==
    LET last_col == Max({0} \cup {c \in 1..GridCols : cells[<<row, c>>] # ""})
    IN  [c \in 1..last_col |-> cells[<<row, c>>]]

IsNumeric(text) == text \in {"3"}

\* gspread.utils.numericise with default_blank = '': text that parses as a
\* number becomes the number, other text is kept.
Numericise(text) == IF IsNumeric(text) THEN "int:" \o text ELSE text

\* Worksheet.get_all_records(head): one record per row below the header row,
\* dict(zip(keys, numericised row)).  A record is kept as the pair of its
\* keys and values; RecordGet looks a key up.
GetAllRecords(cells, head) ==
    LET data == GetAllValues(cells)
    IN  IF Len(data) <= head - 1
        THEN <<>>
        ELSE [i \in 1..(Len(data) - head) |->
                [keys |-> data[head],
                 values |-> [c \in 1..Len(data[head + i]) |->
                                Numericise(data[head + i][c])]]]

\* record[key] of a dict built by dict(zip(keys, values)): the last value
\* zipped with that key.
RecordGet(record, key) ==
    record.values[Max({c \in 1..Len(record.keys) : record.keys[c] = key})]

-----------------------------------------------------------------------------
(* write *)

\* A variant that never counts the header row.
ShapeToRange_NoHeader(dataframe, headers) ==
    <<1, 1, Len(dataframe.rows), Len(dataframe.columns)>>

\* GoogleSheetConnector._shape_to_range
ShapeToRange(dataframe, headers) ==
    LET row_count == Shape(dataframe)[1]
        col_count == Shape(dataframe)[2]
    IN  IF headers
        THEN <<1, 1, row_count + 1, col_count>>
        ELSE <<1, 1, row_count, col_count>>

\* col_indexes: position (from 0) -> column name
ColIndexes(dataframe) ==
    [index \in 0..(Len(dataframe.columns) - 1) |-> dataframe.columns[index + 1]]

\* The value the loop of write gives one cell of the range.
CellValue(dataframe, cell) ==
    IF cell.row = 1
    THEN ColIndexes(dataframe)[cell.col - 1]
    ELSE DataframeAt(dataframe, ColIndexes(dataframe)[cell.col - 1], cell.row - 2)

\* A variant whose loop leaves the cells of row 1 as fetched.
FilledCells_DataOnly(dataframe, cell_list) ==
    [k \in DOMAIN cell_list |->
        IF cell_list[k].row = 1
        THEN cell_list[k]
        ELSE [cell_list[k] EXCEPT !.value = CellValue(dataframe, cell_list[k])]]

\* The cell list after the loop of write.
FilledCells(dataframe, cell_list) ==
    [k \in DOMAIN cell_list |->
        [cell_list[k] EXCEPT !.value = CellValue(dataframe, cell_list[k])]]

\* A variant that sends one update per cell.
UpdateCalls_PerCell(cell_list) ==
    [k \in DOMAIN cell_list |-> Call("update_cells", <<cell_list[k]>>)]

\* worksheet.update_cells(cell_list): the update requests write sends.
UpdateCalls(cell_list) == <<Call("update_cells", cell_list)>>

Write(worksheet_number, dataframe, update_ok) ==
    /\ nwrites' = nwrites + 1
    /\ last' = [NoOp EXCEPT !.op = "write", !.n = worksheet_number,
                            !.table = dataframe]
    /\ casts' = <<>>
    /\ UNCHANGED <<share_with, drive, perms, nreads>>
    /\ IF ~HasWorksheet(worksheet_number - 1)
       THEN \* get_worksheet returned None: None has no attribute 'range'
            /\ calls' = <<Call("get_worksheet", <<worksheet_number - 1>>)>>
            /\ result' = Raised("AttributeError", <<"range">>)
            /\ UNCHANGED sheets
       ELSE LET rng == ShapeToRange(dataframe, TRUE)
                cell_list == FilledCells(dataframe,
                                 WorksheetRange(sheets[worksheet_number], rng))
            IN  /\ calls' = <<Call("get_worksheet", <<worksheet_number - 1>>),
                              Call("range", rng)>> \o UpdateCalls(cell_list)
                /\ IF update_ok
                   THEN /\ sheets' = [sheets EXCEPT ![worksheet_number] =
                                          UpdateCells(@, cell_list)]
                        /\ result' = Returned(NoHandle, EmptyTable)
                   ELSE \* the request fails: nothing is applied, the error propagates
                        /\ result' = Raised("Upstream", <<"update_cells">>)
                        /\ UNCHANGED sheets

WriteStep ==
    /\ nwrites < MaxWrites
    /\ \E n \in 1..(NumSheets + 1), cs \in ColumnSeqs, ok \in BOOLEAN :
          \E rs \in RowsOf(Len(cs)) : Write(n, Table(cs, rs), ok)

-----------------------------------------------------------------------------
(* read *)

DataTypeMaps ==
    {NoDataTypes} \cup
    {[given |-> TRUE, items |-> s] :
        s \in UNION {{m \in [1..k -> KeyNames \X DTypes] :
                         \A i, j \in 1..k : m[i][1] = m[j][1] => i = j}
                     : k \in 0..MaxMapLen}}

\* A variant that keeps every header cell.
NonEmpty_All(s) == s

\* columns = [col for col in worksheet.row_values(1) if col != '']
RECURSIVE NonEmpty(_)
NonEmpty(s) ==
    IF s = <<>> THEN <<>>
    ELSE IF Head(s) # "" THEN <<Head(s)>> \o NonEmpty(Tail(s))
    ELSE NonEmpty(Tail(s))

\* pandas.DataFrame(contents, columns=columns)
DataFrame(contents, columns) ==
    [columns |-> columns,
     rows |-> [i \in 1..Len(contents) |->
                 [j \in 1..Len(columns) |-> RecordGet(contents[i], columns[j])]]]

\* The table read builds before any cast: the records of the worksheet
\* restricted to the non-empty cells of row 1.
ReadFrame(cells) ==
    LET contents == GetAllRecords(cells, 1)
        columns == NonEmpty(RowValues(cells, 1))
    IN  DataFrame(contents, columns)

\* A variant that never misses a column.
InColumns_Always(dataframe, col) == TRUE

\* col in dataframe.columns
InColumns(dataframe, col) == \E j \in 1..Len(dataframe.columns) : dataframe.columns[j] = col

\* Whether astype(dtype) accepts one value.
CanCast(value, dtype) ==
    \/ dtype = "str"
    \/ dtype = "int" /\ value \in {"int:3"}

\* One value after astype(dtype).
CastValue(value, dtype) ==
    IF dtype = "str"
    THEN (IF value = "int:3" THEN "3" ELSE value)
    ELSE value

\* A variant in which the ValueError is swallowed.
CastFails_Never(dataframe, col, dtype) == FALSE

\* Whether dataframe[col].astype(dtype) raises ValueError.
CastFails(dataframe, col, dtype) ==
    \E i \in 1..Len(dataframe.rows), j \in 1..Len(dataframe.columns) :
        dataframe.columns[j] = col /\ ~CanCast(dataframe.rows[i][j], dtype)

\* dataframe[col] = dataframe[col].astype(dtype)
AsType(dataframe, col, dtype) ==
    [dataframe EXCEPT !.rows =
        [i \in 1..Len(dataframe.rows) |->
            [j \in 1..Len(dataframe.columns) |->
                IF dataframe.columns[j] = col
                THEN CastValue(dataframe.rows[i][j], dtype)
                ELSE dataframe.rows[i][j]]]]

\* The loop over data_types.items(): the outcome and the casts attempted.
RECURSIVE CastLoop(_, _, _)
CastLoop(dataframe, items, attempted) ==
    IF items = <<>>
    THEN [result |-> Returned(NoHandle, dataframe), casts |-> attempted]
    ELSE LET col == Head(items)[1]
             dtype == Head(items)[2]
         IN  IF ~InColumns(dataframe, col)
             THEN [result |-> Raised("KeyNotFound", <<col>>), casts |-> attempted]
             ELSE IF CastFails(dataframe, col, dtype)
             THEN [result |-> Raised("TypeCastFailure", <<col, dtype>>),
                   casts |-> Append(attempted, <<col, dtype>>)]
             ELSE CastLoop(AsType(dataframe, col, dtype), Tail(items),
                           Append(attempted, <<col, dtype>>))

Read(worksheet_number, data_types) ==
    /\ nreads' = nreads + 1
    /\ last' = [NoOp EXCEPT
                  !.op = "read", !.n = worksheet_number, !.data_types = data_types,
                  \* history: the table of the write this read directly follows
                  !.after_write = (last.op = "write" /\ result.status = "returned"
                                   /\ last.n = worksheet_number),
                  !.table = IF last.op = "write" /\ result.status = "returned"
                               /\ last.n = worksheet_number
                            THEN last.table ELSE EmptyTable]
    /\ UNCHANGED <<share_with, drive, perms, sheets, nwrites>>
    /\ IF ~HasWorksheet(worksheet_number - 1)
       THEN \* get_worksheet returned None: None has no attribute 'get_all_records'
            /\ calls' = <<Call("get_worksheet", <<worksheet_number - 1>>)>>
            /\ casts' = <<>>
            /\ result' = Raised("AttributeError", <<"get_all_records">>)
       ELSE LET dataframe == ReadFrame(sheets[worksheet_number])
                out == IF data_types.given
                       THEN CastLoop(dataframe, data_types.items, <<>>)
                       ELSE [result |-> Returned(NoHandle, dataframe), casts |-> <<>>]
            IN  /\ calls' = <<Call("get_worksheet", <<worksheet_number - 1>>),
                              Call("get_all_records", <<1>>),
                              Call("row_values", <<1>>)>>
                /\ casts' = out.casts
                /\ result' = out.result

ReadStep ==
    /\ nreads < MaxReads
    /\ \E n \in 1..(NumSheets + 1), d \in DataTypeMaps : Read(n, d)

-----------------------------------------------------------------------------
(* Specifications *)

EmptySheet == [p \in Grid |-> ""]

InitOpen ==
    /\ share_with \in ShareWithValues
    /\ drive \in {<<>>, <<[id |-> 1, title |-> "t1"]>>}
    /\ perms = {}
    /\ sheets = [n \in 1..NumSheets |-> EmptySheet]
    /\ last = NoOp
    /\ calls = <<>>
    /\ casts = <<>>
    /\ result = Returned(NoHandle, EmptyTable)
    /\ nwrites = 0
    /\ nreads = 0

NextOpen == OpenStep

SpecOpen == InitOpen /\ [][NextOpen]_vars

\* A worksheet somebody filled earlier: every cell of the grid holds text.
OldSheet == [p \in Grid |-> IF p[1] = 1 THEN "old" ELSE "x"]

InitSheet ==
    /\ share_with = NoneValue
    /\ drive = <<[id |-> 1, title |-> "t1"]>>
    /\ perms = {}
    /\ sheets \in [1..NumSheets -> {EmptySheet, OldSheet}]
    /\ last = NoOp
    /\ calls = <<>>
    /\ casts = <<>>
    /\ result = Returned(NoHandle, EmptyTable)
    /\ nwrites = 0
    /\ nreads = 0

NextSheet == WriteStep \/ ReadStep

SpecSheet == InitSheet /\ [][NextSheet]_vars

Init == InitOpen \/ InitSheet

Next == OpenStep \/ WriteStep \/ ReadStep

Spec == Init /\ [][Next]_vars

-----------------------------------------------------------------------------
(* Properties of open *)

CountCalls(cs, op) == Cardinality({i \in DOMAIN cs : cs[i].op = op})

\* The step is an open(title, create) whose lookup finds no file with the title.
OpenMisses(create) ==
    /\ last'.op = "open"
    /\ last'.create = create
    /\ ~ClientOpenFound(drive, last'.title)

\* C1: open(title, create=False) for a title the lookup does not find fails
\* with a NotFound error naming the title and the service-account identity,
\* issues no create and no share call, and leaves the remote files as they were.
C1_NotFoundNamesTitleAndIdentity ==
    [][OpenMisses(FALSE) =>
          /\ result'.status = "raised"
          /\ result'.error = "NotFound"
          /\ result'.names = <<last'.title, ServiceAccountEmail>>
          /\ CountCalls(calls', "create") = 0
          /\ CountCalls(calls', "share") = 0
          /\ drive' = drive
          /\ perms' = perms]_vars

\* C2: open(title, create=True) for a title the lookup does not find, on a
\* connector whose share_with is unset or empty, fails with a Configuration
\* error and issues no create call and no share call.
C2_NoGranteeNoCreate ==
    [][(OpenMisses(TRUE) /\ share_with \in {NoneValue, ""}) =>
          /\ result'.status = "raised"
          /\ result'.error = "Configuration"
          /\ CountCalls(calls', "create") = 0
          /\ CountCalls(calls', "share") = 0
          /\ drive' = drive
          /\ perms' = perms]_vars

\* An open with create=True on a connector with an empty share_with has
\* failed with the Configuration error, the title still absent from the drive.
C2_Witness ==
    /\ last.op = "open"
    /\ last.create
    /\ share_with = ""
    /\ ~ClientOpenFound(drive, last.title)
    /\ result.error = "Configuration"

\* C3: open(title, create=True) for a title the lookup does not find, on a
\* connector with a grantee, issues in this order the lookup, one create call
\* with the title and one share call on the created file granting the grantee
\* the writer role, and returns the created file, whose title is the one asked.
C3_CreateThenShareOnce ==
    [][(OpenMisses(TRUE) /\ share_with \notin {NoneValue, ""}) =>
          /\ Len(calls') = 3
          /\ calls'[1] = Call("open", <<last'.title>>)
          /\ calls'[2] = Call("create", <<last'.title>>)
          /\ calls'[3] = Call("share", <<result'.handle.id, share_with, "user", "writer">>)
          /\ result'.status = "returned"
          /\ result'.handle.title = last'.title
          /\ Len(drive') = Len(drive) + 1
          /\ drive'[Len(drive')] = result'.handle
          /\ \A i \in 1..Len(drive) : drive'[i] = drive[i] /\ drive[i].id # result'.handle.id]_vars

\* An open with create=True has created a file next to an older one, shared
\* it and returned it.
C3_Witness ==
    /\ last.op = "open"
    /\ last.create
    /\ share_with = "user@example.com"
    /\ result.status = "returned"
    /\ CountCalls(calls, "create") = 1
    /\ CountCalls(calls, "share") = 1
    /\ Len(drive) >= 2
    /\ result.handle = drive[Len(drive)]
    /\ result.handle.title = last.title

-----------------------------------------------------------------------------
(* Properties of write *)

\* The rectangle rows 1..R+1 by columns 1..C of a table with R rows, C columns.
RectOf(dataframe) ==
    (1..(Len(dataframe.rows) + 1)) \X (1..Len(dataframe.columns))

\* What the cell (r, c) of the rectangle is to hold: the name of the column at
\* position c-1 in row 1, else the value at row position r-2 of that column.
Expected(dataframe, r, c) ==
    IF r = 1 THEN dataframe.columns[c] ELSE dataframe.rows[r - 1][c]

UpdateCallsOf(cs) == {i \in DOMAIN cs : cs[i].op = "update_cells"}

\* C5: every write that completes issues exactly one update call, carrying all
\* cells of the target range; no write issues more than one update call, and a
\* write whose update fails has issued exactly one (no retry).
C5_OneBatchedUpdate ==
    last.op = "write" =>
        /\ CountCalls(calls, "update_cells") <= 1
        /\ result.error = "Upstream" => CountCalls(calls, "update_cells") = 1
        /\ result.status = "returned" =>
              /\ CountCalls(calls, "update_cells") = 1
              /\ \A i \in UpdateCallsOf(calls) :
                    /\ Len(calls[i].args) = Cardinality(RectOf(last.table))
                    /\ {<<calls[i].args[k].row, calls[i].args[k].col>> :
                           k \in DOMAIN calls[i].args} = RectOf(last.table)

\* A write of a table with two rows and two columns has completed with one
\* update call of six cells.
C5_Witness ==
    /\ last.op = "write"
    /\ result.status = "returned"
    /\ Shape(last.table) = <<2, 2>>
    /\ CountCalls(calls, "update_cells") = 1
    /\ Len(calls[3].args) = 6

\* C6: a write of a table with R rows and C columns to an existing worksheet
\* fetches worksheet index worksheet_number-1, requests exactly the range
\* (1, 1, R+1, C), and its update sets every cell (r, c) of that rectangle, and
\* no other cell, to the column name (r = 1) or the table value at (r-2, c-1).
C6_RangeAndCellValues ==
    (last.op = "write" /\ last.n \in 1..NumSheets) =>
        /\ Len(calls) = 3
        /\ calls[1] = Call("get_worksheet", <<last.n - 1>>)
        /\ calls[2] = Call("range", <<1, 1, Len(last.table.rows) + 1,
                                     Len(last.table.columns)>>)
        /\ calls[3].op = "update_cells"
        /\ \A p \in RectOf(last.table) :
              \E k \in DOMAIN calls[3].args :
                 calls[3].args[k] =
                    [row |-> p[1], col |-> p[2],
                     value |-> Expected(last.table, p[1], p[2])]
        /\ \A k \in DOMAIN calls[3].args :
              <<calls[3].args[k].row, calls[3].args[k].col>> \in RectOf(last.table)
        /\ result.status = "returned" =>
              \A p \in RectOf(last.table) :
                 sheets[last.n][p] = Expected(last.table, p[1], p[2])

\* A write of a table with two columns and two different rows has completed
\* on the second worksheet.
C6_Witness ==
    /\ last.op = "write"
    /\ last.n = 2
    /\ result.status = "returned"
    /\ Shape(last.table) = <<2, 2>>
    /\ last.table.rows[1] # last.table.rows[2]
    /\ last.table.rows[1][1] # last.table.rows[1][2]
    /\ sheets[2][<<3, 2>>] = last.table.rows[2][2]

\* C10: a write of a table with R rows and C columns to worksheet n leaves
\* every cell of worksheet n outside rows 1..R+1, columns 1..C and every cell of
\* every other worksheet as it was, and a write that fails before the update
\* call leaves all worksheets as they were.
C10_WriteFrame ==
    [][last'.op = "write" =>
          /\ \A n \in 1..NumSheets, p \in Grid :
                (n # last'.n \/ p \notin RectOf(last'.table)) =>
                    sheets'[n][p] = sheets[n][p]
          /\ CountCalls(calls', "update_cells") = 0 => sheets' = sheets]_vars

\* A write of a one-row, one-column table has completed on a worksheet filled
\* earlier: the old cells outside the rectangle are still there, as are those
\* of the other, filled worksheet.
C10_Witness ==
    /\ last.op = "write"
    /\ result.status = "returned"
    /\ Shape(last.table) = <<1, 1>>
    /\ last.table.columns[1] = "a"
    /\ sheets[last.n][<<1, 1>>] = "a"
    /\ sheets[last.n][<<1, 2>>] = "old"
    /\ sheets[last.n][<<3, 1>>] = "x"
    /\ \E n \in 1..NumSheets : n # last.n /\ sheets[n] = OldSheet

-----------------------------------------------------------------------------
(* Properties of read *)

\* The non-empty cells of row 1, in sheet order.
HeaderCols(cells) == {c \in 1..GridCols : cells[<<1, c>>] # ""}

NthHeaderCol(cells, j) ==
    CHOOSE c \in HeaderCols(cells) :
        Cardinality({d \in HeaderCols(cells) : d <= c}) = j

HeaderNames(cells) ==
    [j \in 1..Cardinality(HeaderCols(cells)) |-> cells[<<1, NthHeaderCol(cells, j)>>]]

HeaderNameSet(cells) == {cells[<<1, c>>] : c \in HeaderCols(cells)}

\* C8: the columns of the table read returns are the cells of row 1 without
\* the empty ones, in the order they have in the sheet.
C8_ColumnsAreNonEmptyHeaders ==
    (last.op = "read" /\ result.status = "returned") =>
        result.table.columns = HeaderNames(sheets[last.n])

\* A read has returned a table from a worksheet whose first header cell is
\* empty, whose second is not, and which has a data row.
C8_Witness ==
    /\ last.op = "read"
    /\ result.status = "returned"
    /\ sheets[last.n][<<1, 1>>] = ""
    /\ sheets[last.n][<<1, 2>>] = "b"
    /\ sheets[last.n][<<2, 1>>] # ""
    /\ result.table.columns = <<"b">>
    /\ Len(result.table.rows) >= 1

\* The read was given a data_types map and found its worksheet.
ReadWithTypes ==
    /\ last.op = "read"
    /\ last.data_types.given
    /\ last.n \in 1..NumSheets

Items == last.data_types.items

\* The entry names a column the sheet has not.
Absent(i) == Items[i][1] \notin HeaderNameSet(sheets[last.n])

\* The entry names a column of the sheet one of whose values the target type
\* cannot represent.
Unrepresentable(i) ==
    LET frame == ReadFrame(sheets[last.n])
    IN  \E r \in 1..Len(frame.rows), j \in 1..Len(frame.columns) :
           frame.columns[j] = Items[i][1] /\ ~CanCast(frame.rows[r][j], Items[i][2])

\* C7 as stated: whenever the map names an absent column, read fails with
\* KeyNotFound naming an absent column and has attempted no cast at all.
C7_AbsentKeyNoCastAtAll ==
    (ReadWithTypes /\ \E i \in DOMAIN Items : Absent(i)) =>
        /\ result.status = "raised"
        /\ result.error = "KeyNotFound"
        /\ \E i \in DOMAIN Items : Absent(i) /\ result.names = <<Items[i][1]>>
        /\ casts = <<>>

\* C7, amended: when the map names an absent column and every entry before
\* the first such entry casts without error, read fails with KeyNotFound
\* naming that first absent column; the casts attempted are exactly those of
\* the entries before it, none on the absent column or on a later one.
C7_FirstAbsentKey ==
    (ReadWithTypes /\ \E i \in DOMAIN Items : Absent(i)) =>
        LET k == Min({i \in DOMAIN Items : Absent(i)})
        IN  (\A i \in 1..(k - 1) : ~Unrepresentable(i)) =>
               /\ result.status = "raised"
               /\ result.error = "KeyNotFound"
               /\ result.names = <<Items[k][1]>>
               /\ casts = SubSeq(Items, 1, k - 1)

\* A read whose map names a present column and then an absent one has failed
\* with KeyNotFound on the absent one, after casting the present one.
C7_Witness ==
    /\ ReadWithTypes
    /\ Len(Items) = 2
    /\ ~Absent(1)
    /\ Absent(2)
    /\ Len(ReadFrame(sheets[last.n]).rows) >= 1
    /\ result.error = "KeyNotFound"
    /\ result.names = <<Items[2][1]>>
    /\ casts = <<Items[1]>>

\* C9 as stated: whenever the map gives a present column a type that cannot
\* represent one of its values, read fails with TypeCastFailure naming such a
\* column and its target type, and returns no table.
C9_BadColumnAlwaysNamed ==
    (ReadWithTypes /\ \E i \in DOMAIN Items : Unrepresentable(i)) =>
        /\ result.status = "raised"
        /\ result.error = "TypeCastFailure"
        /\ \E i \in DOMAIN Items : Unrepresentable(i) /\ result.names = Items[i]

\* C9, amended: when the map gives a present column a type that cannot
\* represent one of its values, and every entry before the first such entry
\* names a present column, read fails with TypeCastFailure naming that column
\* and its target type, and returns no table.
C9_FirstBadColumn ==
    (ReadWithTypes /\ \E i \in DOMAIN Items : Unrepresentable(i)) =>
        LET k == Min({i \in DOMAIN Items : Unrepresentable(i)})
        IN  (\A i \in 1..(k - 1) : ~Absent(i)) =>
               /\ result.status = "raised"
               /\ result.error = "TypeCastFailure"
               /\ result.names = <<Items[k][1], Items[k][2]>>
               /\ result.table = EmptyTable

\* A read whose map casts one column without error and then asks an integer
\* type for a column holding non-numeric text has failed naming the latter.
C9_Witness ==
    /\ ReadWithTypes
    /\ Len(Items) = 2
    /\ ~Absent(1) /\ ~Unrepresentable(1)
    /\ Unrepresentable(2)
    /\ Items[2][2] = "int"
    /\ result.error = "TypeCastFailure"
    /\ result.names = <<Items[2][1], "int">>
    /\ casts = <<Items[1], Items[2]>>

-----------------------------------------------------------------------------
(* Round trip *)

\* The read directly follows a completed write to the same worksheet and was
\* given no data_types; last.table is the table written.
ReadAfterWrite ==
    /\ last.op = "read"
    /\ last.after_write
    /\ ~last.data_types.given

\* A value as a read without data_types represents it: numeric text comes
\* back as the number.
AsRead(value) == IF value = "3" THEN "int:3" ELSE value

RowsAsRead(dataframe) ==
    [i \in 1..Len(dataframe.rows) |->
        [j \in 1..Len(dataframe.columns) |-> AsRead(dataframe.rows[i][j])]]

NamesNonEmpty(dataframe) ==
    \A j \in 1..Len(dataframe.columns) : dataframe.columns[j] # ""

ValuesNonEmpty(dataframe) ==
    \A i \in 1..Len(dataframe.rows), j \in 1..Len(dataframe.columns) :
        dataframe.rows[i][j] # ""

LastRowNonEmpty(dataframe) ==
    Len(dataframe.rows) > 0 =>
        \E j \in 1..Len(dataframe.columns) :
            dataframe.rows[Len(dataframe.rows)][j] # ""

\* C4 as stated, for tables without empty names or values and up to the
\* representation of numbers: whatever the worksheet held before, write
\* followed by read returns the columns and the rows of the table written.
C4_RoundTripWhateverBefore ==
    (ReadAfterWrite /\ NamesNonEmpty(last.table) /\ ValuesNonEmpty(last.table)) =>
        /\ result.status = "returned"
        /\ result.table.columns = last.table.columns
        /\ result.table.rows = RowsAsRead(last.table)

\* C4, amended: when every cell of the worksheet outside the written rectangle
\* is empty, no column name is empty and the last row of the table is not all
\* empty, write followed by read returns the column names in order and the
\* values in row order, numeric text as the number.
C4_RoundTripOnClearSheet ==
    (/\ ReadAfterWrite
     /\ NamesNonEmpty(last.table)
     /\ LastRowNonEmpty(last.table)
     /\ \A p \in Grid \ RectOf(last.table) : sheets[last.n][p] = "") =>
        /\ result.status = "returned"
        /\ result.table.columns = last.table.columns
        /\ result.table.rows = RowsAsRead(last.table)

\* A read has returned the two-row, two-column table written just before,
\* one row holding an empty value and numeric text.
C4_Witness ==
    /\ ReadAfterWrite
    /\ last.table.columns = <<"b", "a">>
    /\ last.table.rows = << <<"", "3">>, <<"x", "">> >>
    /\ result.status = "returned"
    /\ result.table.columns = <<"b", "a">>
    /\ result.table.rows = << <<"", "int:3">>, <<"x", "">> >>

====
